---- MODULE Spec2Model ----
(***************************************************************************)
(* Support/resistance channel detector of K-Master                         *)
(* (src/services/srChannelService.ts).                                     *)
(*                                                                         *)
(* Array indices are 0-based as in the source; the candle at source index  *)
(* i is candles[i + 1] here.  Prices are integers.  The one non-integer    *)
(* quantity of the source, channelWidth = range * percent / 100, is kept   *)
(* exact by carrying it in hundredths (see calculateChannelWidth).         *)
(***************************************************************************)
EXTENDS Integers, Sequences, FiniteSets, TLC

VARIABLES candles, pc, options, result, locals, scanArgs, scanResult, build, widthCall

vars ==
    <<candles, pc, options, result, locals, scanArgs, scanResult, build, widthCall>>

(***************************************************************************)
(* Bounds of the model.                                                    *)
(***************************************************************************)
MaxLen == 4
MaxScanLen == 7
MaxScanPeriod == 2
MaxPivots == 4
MaxOlder == 2

(***************************************************************************)
(* Program constants.                                                      *)
(***************************************************************************)
DefaultPivotPeriod == 10
DefaultChannelWidthPercent == 5
DefaultMinStrength == 1
DefaultMaxChannels == 6
DefaultLoopbackPeriod == 290
WidthLookback == 300
PivotScore == 20
MinStrengthUnit == 20
PercentBase == 100

(***************************************************************************)
(* Inputs.  A candle is a KLineData record; volume and turnover are never  *)
(* read by the detector and are left out.  The timestamp of a candle is    *)
(* set when it is appended (kline open times increase along the series).   *)
(***************************************************************************)
CandleShapes ==
    { [open |-> 1, high |-> 1, low |-> 1, close |-> 1],
      [open |-> 4, high |-> 4, low |-> 4, close |-> 4],
      [open |-> 2, high |-> 3, low |-> 1, close |-> 2],
      [open |-> 3, high |-> 3, low |-> 2, close |-> 2] }

\* An optional property of the options object: <<>> when omitted, <<v>> when given.
OptionsSet ==
    [ pivotPeriod         : {<<>>, <<-1>>, <<0>>, <<1>>},
      channelWidthPercent : {<<>>, <<50>>},
      minStrength         : {<<>>, <<2>>},
      maxChannels         : {<<>>, <<-1>>, <<0>>, <<1>>, <<2>>},
      loopbackPeriod      : {<<>>, <<0>>, <<1>>},
      source              : {<<>>, <<"Close/Open">>} ]

NoOptions ==
    [ pivotPeriod |-> <<>>, channelWidthPercent |-> <<>>, minStrength |-> <<>>,
      maxChannels |-> <<>>, loopbackPeriod |-> <<>>, source |-> <<>> ]

Sources == {"High/Low", "Close/Open"}

(***************************************************************************)
(* JavaScript helpers.                                                     *)
(***************************************************************************)
Max(a, b) == IF a >= b THEN a ELSE b

Min(a, b) == IF a <= b THEN a ELSE b

\* Destructuring default: `const { x = d } = options`.
OrDefault(opt, d) == IF opt = <<>> THEN d ELSE opt[1]

\* Array.prototype.slice(start) with one argument.
Slice(arr, start) ==
    LET n == Len(arr)
        from == IF start < 0 THEN Max(n + start, 0) ELSE Min(start, n)
    IN  SubSeq(arr, from + 1, n)

\* Array.prototype.filter.
Filter(arr, Keep(_)) == SelectSeq(arr, Keep)

\* One step of a stable sort in descending order of field f: x goes after
\* every element whose key is not smaller than its own.
InsertDescending(sorted, x, f) ==
    LET k == Cardinality({i \in 1..Len(sorted) : sorted[i][f] >= x[f]})
    IN  SubSeq(sorted, 1, k) \o <<x>> \o SubSeq(sorted, k + 1, Len(sorted))

RECURSIVE SortDescendingFrom(_, _, _, _)
SortDescendingFrom(arr, f, k, sorted) ==
    IF k > Len(arr) THEN sorted
    ELSE SortDescendingFrom(arr, f, k + 1, InsertDescending(sorted, arr[k], f))

\* Array.prototype.sort((a, b) => b.f - a.f): descending by f, stable.
SortDescending(arr, f) == SortDescendingFrom(arr, f, 1, <<>>)

(***************************************************************************)
(* Pivot scanner.                                                          *)
(***************************************************************************)
\* candles[i] of the source; reading a field of it throws when i is no index.
InRange(arr, i) == i >= 0 /\ i < Len(arr)

highSource(candle, source) ==
    IF source = "High/Low" THEN candle.high ELSE Max(candle.open, candle.close)

lowSource(candle, source) ==
    IF source = "High/Low" THEN candle.low ELSE Min(candle.open, candle.close)

\* Mutant: a neighbour that ties no longer disqualifies a pivot-high.
reachesHighStrictly(neighbourValue, currentValue) == neighbourValue > currentValue

\* leftValue >= currentValue, rightValue >= currentValue
reachesHigh(neighbourValue, currentValue) == neighbourValue >= currentValue

\* Mutant: a neighbour that ties no longer disqualifies a pivot-low.
reachesLowStrictly(neighbourValue, currentValue) == neighbourValue < currentValue

\* leftValue <= currentValue, rightValue <= currentValue
reachesLow(neighbourValue, currentValue) == neighbourValue <= currentValue

\* Mutant: the candles to the right of i are not compared.
RECURSIVE leftSideOnlyIsLower(_, _, _, _, _, _)
leftSideOnlyIsLower(arr, i, dir, period, source, j) ==
    IF dir = 1 \/ j > period THEN TRUE
    ELSE IF reachesHigh(highSource(arr[i + dir * j + 1], source),
                        highSource(arr[i + 1], source))
         THEN FALSE
         ELSE leftSideOnlyIsLower(arr, i, dir, period, source, j + 1)

\* The inner loops of findPivotHighs: j runs from 1 to period over the
\* candles at i + dir * j and stops at the first one that reaches currentValue.
RECURSIVE highSideIsLower(_, _, _, _, _, _)
highSideIsLower(arr, i, dir, period, source, j) ==
    IF j > period THEN TRUE
    ELSE IF reachesHigh(highSource(arr[i + dir * j + 1], source),
                        highSource(arr[i + 1], source))
         THEN FALSE
         ELSE highSideIsLower(arr, i, dir, period, source, j + 1)

RECURSIVE findPivotHighsFrom(_, _, _, _, _)
findPivotHighsFrom(arr, period, source, i, pivots) ==
    IF ~(i < Len(arr) - period) THEN [threw |-> FALSE, pivots |-> pivots]
    ELSE IF ~InRange(arr, i) THEN [threw |-> TRUE, pivots |-> <<>>]
    ELSE LET isPivot == /\ highSideIsLower(arr, i, -1, period, source, 1)
                        /\ highSideIsLower(arr, i, 1, period, source, 1)
             pivot == [value |-> highSource(arr[i + 1], source), index |-> i,
                       timestamp |-> arr[i + 1].timestamp]
         IN  findPivotHighsFrom(arr, period, source, i + 1,
                                IF isPivot THEN Append(pivots, pivot) ELSE pivots)

\* Mutant: the scan covers every index and compares with the neighbours that
\* exist, so the first and last `period` candles can be pivots too.
findPivotHighsClipped(arr, period, source) ==
    LET n == Len(arr)
        isPivot(i) == \A j \in 0..(n - 1) :
                         (j # i /\ j - i <= period /\ i - j <= period)
                             => highSource(arr[j + 1], source) < highSource(arr[i + 1], source)
        found == {i \in 0..(n - 1) : isPivot(i)}
        nth(k) == CHOOSE i \in found : Cardinality({j \in found : j < i}) = k - 1
    IN  [threw |-> FALSE,
         pivots |-> [k \in 1..Cardinality(found) |->
                        [value |-> highSource(arr[nth(k) + 1], source), index |-> nth(k),
                         timestamp |-> arr[nth(k) + 1].timestamp]]]

findPivotHighs(arr, period, source) == findPivotHighsFrom(arr, period, source, period, <<>>)

\* Mutant: only the adjacent candle on each side is compared.
adjacentOnlyIsHigher(arr, i, dir, period, source, j) ==
    IF period < 1 THEN TRUE
    ELSE ~reachesLow(lowSource(arr[i + dir + 1], source), lowSource(arr[i + 1], source))

\* The inner loops of findPivotLows.
RECURSIVE lowSideIsHigher(_, _, _, _, _, _)
lowSideIsHigher(arr, i, dir, period, source, j) ==
    IF j > period THEN TRUE
    ELSE IF reachesLow(lowSource(arr[i + dir * j + 1], source),
                       lowSource(arr[i + 1], source))
         THEN FALSE
         ELSE lowSideIsHigher(arr, i, dir, period, source, j + 1)

RECURSIVE findPivotLowsFrom(_, _, _, _, _)
findPivotLowsFrom(arr, period, source, i, pivots) ==
    IF ~(i < Len(arr) - period) THEN [threw |-> FALSE, pivots |-> pivots]
    ELSE IF ~InRange(arr, i) THEN [threw |-> TRUE, pivots |-> <<>>]
    ELSE LET isPivot == /\ lowSideIsHigher(arr, i, -1, period, source, 1)
                        /\ lowSideIsHigher(arr, i, 1, period, source, 1)
             pivot == [value |-> lowSource(arr[i + 1], source), index |-> i,
                       timestamp |-> arr[i + 1].timestamp]
         IN  findPivotLowsFrom(arr, period, source, i + 1,
                               IF isPivot THEN Append(pivots, pivot) ELSE pivots)

findPivotLows(arr, period, source) == findPivotLowsFrom(arr, period, source, period, <<>>)

(***************************************************************************)
(* Channel builder.                                                        *)
(***************************************************************************)
\* Math.max(...arr.map(c => c.high)) and Math.min(...arr.map(c => c.low)),
\* for a non-empty arr.
highestHigh(arr) ==
    CHOOSE h \in {arr[k].high : k \in 1..Len(arr)} : \A k \in 1..Len(arr) : arr[k].high <= h

lowestLow(arr) ==
    CHOOSE l \in {arr[k].low : k \in 1..Len(arr)} : \A k \in 1..Len(arr) : arr[k].low >= l

\* Mutant: highest and lowest are taken over the whole series.
calculateChannelWidthOverAll(arr, widthPercent) ==
    (highestHigh(arr) - lowestLow(arr)) * widthPercent

\* The source returns (highest - lowest) * widthPercent / 100; the value here
\* is that number in hundredths, (highest - lowest) * widthPercent, and
\* withinWidth compares a width against it.  Called on non-empty arr only.
calculateChannelWidth(arr, widthPercent) ==
    LET lookback == Min(WidthLookback, Len(arr))
        recentCandles == Slice(arr, -lookback)
    IN  (highestHigh(recentCandles) - lowestLow(recentCandles)) * widthPercent

\* Mutant: a pivot is absorbed up to twice the width.
withinTwiceWidth(width, channelWidth) == width * PercentBase <= 2 * channelWidth

\* width <= channelWidth
withinWidth(width, channelWidth) == width * PercentBase <= channelWidth

\* Mutant: a pivot above the channel is written to the wrong bound.
absorbIntoLow(channel, pivot, channelWidth) ==
    LET width == IF pivot.value <= channel.high
                 THEN channel.high - pivot.value
                 ELSE pivot.value - channel.low
    IN  IF withinWidth(width, channelWidth)
        THEN IF pivot.value <= channel.high
             THEN [high |-> channel.high, low |-> Min(channel.low, pivot.value),
                   pivotCount |-> channel.pivotCount + 1]
             ELSE [high |-> channel.high, low |-> Max(channel.low, pivot.value),
                   pivotCount |-> channel.pivotCount + 1]
        ELSE channel

\* Mutant: an absorbed pivot is counted but moves neither bound.
absorbCountOnly(channel, pivot, channelWidth) ==
    LET width == IF pivot.value <= channel.high
                 THEN channel.high - pivot.value
                 ELSE pivot.value - channel.low
    IN  IF withinWidth(width, channelWidth)
        THEN [channel EXCEPT !.pivotCount = channel.pivotCount + 1]
        ELSE channel

\* Mutant: a bound moved by an absorbed pivot is set one price step beyond it.
absorbPadded(channel, pivot, channelWidth) ==
    LET width == IF pivot.value <= channel.high
                 THEN channel.high - pivot.value
                 ELSE pivot.value - channel.low
    IN  IF withinWidth(width, channelWidth)
        THEN IF pivot.value <= channel.high
             THEN [high |-> channel.high, low |-> Min(channel.low, pivot.value - 1),
                   pivotCount |-> channel.pivotCount + 1]
             ELSE [high |-> Max(channel.high, pivot.value + 1), low |-> channel.low,
                   pivotCount |-> channel.pivotCount + 1]
        ELSE channel

\* One iteration of the absorption loop on the pivot `pivot`.
absorb(channel, pivot, channelWidth) ==
    LET width == IF pivot.value <= channel.high
                 THEN channel.high - pivot.value
                 ELSE pivot.value - channel.low
    IN  IF withinWidth(width, channelWidth)
        THEN IF pivot.value <= channel.high
             THEN [high |-> channel.high, low |-> Min(channel.low, pivot.value),
                   pivotCount |-> channel.pivotCount + 1]
             ELSE [high |-> Max(channel.high, pivot.value), low |-> channel.low,
                   pivotCount |-> channel.pivotCount + 1]
        ELSE channel

\* Mutant: the seed is not skipped and is absorbed like any other pivot.
RECURSIVE buildChannelFromCountingSeed(_, _, _, _, _)
buildChannelFromCountingSeed(pivotIndex, allPivots, channelWidth, i, channel) ==
    IF ~(i < Len(allPivots)) THEN channel
    ELSE buildChannelFromCountingSeed(pivotIndex, allPivots, channelWidth, i + 1,
                                      absorb(channel, allPivots[i + 1], channelWidth))

RECURSIVE buildChannelFrom(_, _, _, _, _)
buildChannelFrom(pivotIndex, allPivots, channelWidth, i, channel) ==
    IF ~(i < Len(allPivots)) THEN channel
    ELSE IF i = pivotIndex
         THEN buildChannelFrom(pivotIndex, allPivots, channelWidth, i + 1, channel)
         ELSE buildChannelFrom(pivotIndex, allPivots, channelWidth, i + 1,
                               absorb(channel, allPivots[i + 1], channelWidth))

\* Mutant: the seed is not counted, pivotCount starts at 0.
buildChannelFromPivotUncounted(pivotIndex, allPivots, channelWidth) ==
    LET basePivot == allPivots[pivotIndex + 1]
    IN  buildChannelFrom(pivotIndex, allPivots, channelWidth, 0,
                         [high |-> basePivot.value, low |-> basePivot.value,
                          pivotCount |-> 0])

buildChannelFromPivot(pivotIndex, allPivots, channelWidth) ==
    LET basePivot == allPivots[pivotIndex + 1]
    IN  buildChannelFrom(pivotIndex, allPivots, channelWidth, 0,
                         [high |-> basePivot.value, low |-> basePivot.value,
                          pivotCount |-> 1])

(***************************************************************************)
(* Strength scorer.                                                        *)
(***************************************************************************)
\* Mutant: any candle whose range meets the channel's range is a touch.
touchesByRange(candle, channel) ==
    candle.low <= channel.high /\ candle.high >= channel.low

touches(candle, channel) ==
    \/ (candle.high <= channel.high /\ candle.high >= channel.low)
    \/ (candle.low <= channel.high /\ candle.low >= channel.low)

\* Mutant: the high and the low of a candle are counted as one touch each.
calculateChannelStrengthPerBound(channel, arr, loopbackPeriod) ==
    LET recentCandles == Slice(arr, -loopbackPeriod)
        inside(v) == v <= channel.high /\ v >= channel.low
        highCount == Cardinality({k \in 1..Len(recentCandles) : inside(recentCandles[k].high)})
        lowCount == Cardinality({k \in 1..Len(recentCandles) : inside(recentCandles[k].low)})
    IN  channel.pivotCount * PivotScore + highCount + lowCount

calculateChannelStrength(channel, arr, loopbackPeriod) ==
    LET recentCandles == Slice(arr, -loopbackPeriod)
        touchCount == Cardinality({k \in 1..Len(recentCandles) :
                                      touches(recentCandles[k], channel)})
    IN  channel.pivotCount * PivotScore + touchCount

\* Mutant: a bound equal to the current price still counts as below or above it.
determineChannelTypeInclusive(channel, currentPrice) ==
    IF channel.high <= currentPrice /\ channel.low <= currentPrice THEN "support"
    ELSE IF channel.high >= currentPrice /\ channel.low >= currentPrice THEN "resistance"
    ELSE "neutral"

\* Mutant: the type is decided by the upper bound alone.
determineChannelTypeByHigh(channel, currentPrice) ==
    IF channel.high < currentPrice THEN "support"
    ELSE IF channel.high > currentPrice THEN "resistance"
    ELSE "neutral"

determineChannelType(channel, currentPrice) ==
    IF channel.high < currentPrice /\ channel.low < currentPrice THEN "support"
    ELSE IF channel.high > currentPrice /\ channel.low > currentPrice THEN "resistance"
    ELSE "neutral"

(***************************************************************************)
(* Selector: calculateSRChannels, step by step.                            *)
(***************************************************************************)
\* Mutant: the scan uses one neighbour fewer on each side than asked for.
pivotPeriodOffByOne(opts) == OrDefault(opts.pivotPeriod, DefaultPivotPeriod) - 1

pivotPeriodOf(opts) == OrDefault(opts.pivotPeriod, DefaultPivotPeriod)

channelWidthPercentOf(opts) == OrDefault(opts.channelWidthPercent, DefaultChannelWidthPercent)

minStrengthOf(opts) == OrDefault(opts.minStrength, DefaultMinStrength)

maxChannelsOf(opts) == OrDefault(opts.maxChannels, DefaultMaxChannels)

loopbackPeriodOf(opts) == OrDefault(opts.loopbackPeriod, DefaultLoopbackPeriod)

sourceOf(opts) == OrDefault(opts.source, "High/Low")

\* The guard on the number of candles.
insufficientData(arr, opts) == Len(arr) < pivotPeriodOf(opts) * 2 + 1

\* [...pivotHighs, ...pivotLows].sort((a, b) => b.timestamp - a.timestamp)
allPivotsOf(arr, opts) ==
    SortDescending(findPivotHighs(arr, pivotPeriodOf(opts), sourceOf(opts)).pivots
                       \o findPivotLows(arr, pivotPeriodOf(opts), sourceOf(opts)).pivots,
                   "timestamp")

\* Mutant: a pivot exactly loopbackPeriod candles back is dropped.
inLoopbackStrictly(arr, opts, p) == (Len(arr) - 1) - p.index < loopbackPeriodOf(opts)

inLoopback(arr, opts, p) == (Len(arr) - 1) - p.index <= loopbackPeriodOf(opts)

validPivotsOf(arr, opts) ==
    Filter(allPivotsOf(arr, opts), LAMBDA p : inLoopback(arr, opts, p))

\* Mutant: the channels are built over allPivots, not over validPivots.
channelCandidatesOverAllPivots(arr, opts) ==
    LET validPivots == validPivotsOf(arr, opts)
        channelWidth == calculateChannelWidth(arr, channelWidthPercentOf(opts))
    IN  [k \in 1..Len(validPivots) |->
            LET channel == buildChannelFromPivot(k - 1, allPivotsOf(arr, opts), channelWidth)
            IN  [high |-> channel.high, low |-> channel.low,
                 pivotCount |-> channel.pivotCount,
                 strength |-> calculateChannelStrength(channel, arr, loopbackPeriodOf(opts))]]

channelCandidatesOf(arr, opts) ==
    LET validPivots == validPivotsOf(arr, opts)
        channelWidth == calculateChannelWidth(arr, channelWidthPercentOf(opts))
    IN  [k \in 1..Len(validPivots) |->
            LET channel == buildChannelFromPivot(k - 1, validPivots, channelWidth)
            IN  [high |-> channel.high, low |-> channel.low,
                 pivotCount |-> channel.pivotCount,
                 strength |-> calculateChannelStrength(channel, arr, loopbackPeriodOf(opts))]]

\* Mutant: the threshold is minStrength itself, not minStrength * 20.
strongEnoughUnscaled(c, minStrength) == c.strength >= minStrength

strongEnough(c, minStrength) == c.strength >= minStrength * MinStrengthUnit

\* Mutant: the candidates are filtered but not sorted.
unsortedCandidatesOf(arr, opts) ==
    Filter(channelCandidatesOf(arr, opts), LAMBDA c : strongEnough(c, minStrengthOf(opts)))

\* .filter(c => c.strength >= minStrength * 20).sort((a, b) => b.strength - a.strength)
sortCandidates(channelCandidates, opts) ==
    SortDescending(Filter(channelCandidates,
                          LAMBDA c : strongEnough(c, minStrengthOf(opts))),
                   "strength")

sortedCandidatesOf(arr, opts) == sortCandidates(channelCandidatesOf(arr, opts), opts)

\* Mutant: ranges that only share a bound are not seen as overlapping.
overlapsInside(candidate, range) == candidate.high > range.low /\ candidate.low < range.high

\* candidate.high >= range.low && candidate.low <= range.high
overlaps(candidate, range) == candidate.high >= range.low /\ candidate.low <= range.high

\* Mutant: a candidate is compared with the last accepted range only.
isOverlappingLast(candidate, usedRanges) ==
    Len(usedRanges) >= 1 /\ overlaps(candidate, usedRanges[Len(usedRanges)])

isOverlapping(candidate, usedRanges) ==
    \E k \in 1..Len(usedRanges) : overlaps(candidate, usedRanges[k])

\* Mutant: the cap is tested one channel too late.
capExceeded(selectedChannels, maxChannels) == Len(selectedChannels) > maxChannels

capReached(selectedChannels, maxChannels) == Len(selectedChannels) >= maxChannels

\* Mutant: the loop runs to the end of the list and the last maxChannels
\* accepted channels are returned.
RECURSIVE selectFromNewest(_, _, _, _, _, _)
selectFromNewest(sortedCandidates, maxChannels, currentPrice, k, selectedChannels, usedRanges) ==
    IF k > Len(sortedCandidates)
    THEN IF maxChannels <= 0 THEN <<>>
         ELSE SubSeq(selectedChannels,
                     Max(1, Len(selectedChannels) - maxChannels + 1),
                     Len(selectedChannels))
    ELSE LET candidate == sortedCandidates[k]
         IN  IF ~isOverlapping(candidate, usedRanges)
             THEN selectFromNewest(sortedCandidates, maxChannels, currentPrice, k + 1,
                     Append(selectedChannels,
                            [high |-> candidate.high, low |-> candidate.low,
                             strength |-> candidate.strength,
                             type |-> determineChannelType(candidate, currentPrice)]),
                     Append(usedRanges, [high |-> candidate.high, low |-> candidate.low]))
             ELSE selectFromNewest(sortedCandidates, maxChannels, currentPrice, k + 1,
                                   selectedChannels, usedRanges)

\* The selection loop from the k-th sorted candidate on.
RECURSIVE selectFrom(_, _, _, _, _, _)
selectFrom(sortedCandidates, maxChannels, currentPrice, k, selectedChannels, usedRanges) ==
    IF k > Len(sortedCandidates) THEN selectedChannels
    ELSE IF capReached(selectedChannels, maxChannels) THEN selectedChannels
    ELSE LET candidate == sortedCandidates[k]
         IN  IF ~isOverlapping(candidate, usedRanges)
             THEN selectFrom(sortedCandidates, maxChannels, currentPrice, k + 1,
                     Append(selectedChannels,
                            [high |-> candidate.high, low |-> candidate.low,
                             strength |-> candidate.strength,
                             type |-> determineChannelType(candidate, currentPrice)]),
                     Append(usedRanges, [high |-> candidate.high, low |-> candidate.low]))
             ELSE selectFrom(sortedCandidates, maxChannels, currentPrice, k + 1,
                             selectedChannels, usedRanges)

\* One of the two pivot scans of the call reads past the series and throws.
pivotScanThrows(arr, opts) ==
    \/ findPivotHighs(arr, pivotPeriodOf(opts), sourceOf(opts)).threw
    \/ findPivotLows(arr, pivotPeriodOf(opts), sourceOf(opts)).threw

\* The call's outcome: threw, or returned the list `channels`.
calculateSRChannels(arr, opts) ==
    IF insufficientData(arr, opts) THEN [threw |-> FALSE, channels |-> <<>>]
    ELSE IF pivotScanThrows(arr, opts) THEN [threw |-> TRUE, channels |-> <<>>]
    ELSE IF Len(validPivotsOf(arr, opts)) = 0 THEN [threw |-> FALSE, channels |-> <<>>]
    ELSE [threw |-> FALSE,
          channels |-> selectFrom(sortedCandidatesOf(arr, opts), maxChannelsOf(opts),
                                  arr[Len(arr)].close, 1, <<>>, <<>>)]

(***************************************************************************)
(* What a call leaves of its arguments.  The routine assigns to no element *)
(* or field of candles and to no property of options; the array methods it *)
(* calls on candles are slice (calculateChannelWidth, and                  *)
(* calculateChannelStrength once per candidate) and the reads candles[i]   *)
(* and candles.length.  Both sorts run on arrays built inside the call.    *)
(***************************************************************************)
\* Mutant: Array.prototype.splice(start), which removes the elements from
\* start on from its receiver.
receiverAfterSplice(arr, start) ==
    LET n == Len(arr)
        from == IF start < 0 THEN Max(n + start, 0) ELSE Min(start, n)
    IN  SubSeq(arr, 1, from)

\* Array.prototype.slice(start) leaves its receiver as it is.
receiverAfterSlice(arr, start) == arr

\* candles after calculateChannelStrength has run on each of n candidates.
RECURSIVE candlesAfterScoring(_, _, _)
candlesAfterScoring(arr, loopbackPeriod, n) ==
    IF n = 0 THEN arr
    ELSE candlesAfterScoring(receiverAfterSlice(arr, -loopbackPeriod), loopbackPeriod, n - 1)

\* candles after a call whose loop scored `scored` candidates; a call that
\* ended before the loop (guard, throw, no valid pivot) scored none and
\* called no method of candles.
candlesAfterCall(arr, opts, scored) ==
    IF scored = 0 THEN arr
    ELSE candlesAfterScoring(receiverAfterSlice(arr, -Min(WidthLookback, Len(arr))),
                             loopbackPeriodOf(opts), scored)

\* The destructuring of options reads its properties and writes none.
optionsAfterCall(arr, opts) == opts

(***************************************************************************)
(* State machine.  A caller holds an options object, assembles a candle     *)
(* series and then either calls calculateSRChannels on both or runs the    *)
(* two pivot scans on the series.  locals keeps the local arrays of the    *)
(* call for the properties that speak of them.                             *)
(***************************************************************************)
NoResult == [threw |-> FALSE, channels |-> <<>>]

\* The local arrays of a call of calculateSRChannels as they are when it
\* ends; an array the call did not reach is empty.
NoLocals ==
    [allPivots |-> <<>>, validPivots |-> <<>>, channelCandidates |-> <<>>,
     sortedCandidates |-> <<>>]

localsAtReturn(arr, opts) ==
    IF insufficientData(arr, opts) THEN NoLocals
    ELSE IF pivotScanThrows(arr, opts) THEN NoLocals
    ELSE LET allPivots == allPivotsOf(arr, opts)
             validPivots == Filter(allPivots, LAMBDA p : inLoopback(arr, opts, p))
         IN  IF Len(validPivots) = 0 THEN [NoLocals EXCEPT !.allPivots = allPivots]
             ELSE LET channelCandidates == channelCandidatesOf(arr, opts)
                  IN  [allPivots |-> allPivots,
                       validPivots |-> validPivots,
                       channelCandidates |-> channelCandidates,
                       sortedCandidates |-> sortCandidates(channelCandidates, opts)]

NoScan == [highs |-> [threw |-> FALSE, pivots |-> <<>>],
           lows |-> [threw |-> FALSE, pivots |-> <<>>]]

\* No call of calculateChannelWidth has been made.
NoWidthCall == [widthPercent |-> 0, returned |-> FALSE, value |-> 0]

\* No call of buildChannelFromPivot is under way.
NoBuild ==
    [pivotIndex |-> 0, allPivots |-> <<>>, channelWidth |-> 0, i |-> 0,
     channel |-> [high |-> 0, low |-> 0, pivotCount |-> 0],
     returned |-> FALSE, result |-> [high |-> 0, low |-> 0, pivotCount |-> 0]]

Init ==
    /\ candles = <<>>
    /\ pc = "input"
    /\ options \in OptionsSet
    /\ result = NoResult
    /\ locals = NoLocals
    /\ scanArgs = [period |-> 0, source |-> "High/Low"]
    /\ scanResult = NoScan
    /\ build = NoBuild
    /\ widthCall = NoWidthCall

withTimestamp(shape, t) ==
    [timestamp |-> t, open |-> shape.open, high |-> shape.high,
     low |-> shape.low, close |-> shape.close]

AppendCandle(shape, limit) ==
    /\ pc = "input"
    /\ Len(candles) < limit
    /\ candles' = Append(candles, withTimestamp(shape, Len(candles) + 1))
    /\ UNCHANGED <<pc, options, result, locals, scanArgs, scanResult, build, widthCall>>

AddCandle == \E shape \in CandleShapes : AppendCandle(shape, MaxLen)

Call ==
    /\ pc = "input"
    /\ result' = calculateSRChannels(candles, options)
    /\ locals' = localsAtReturn(candles, options)
    /\ candles' = candlesAfterCall(candles, options, Len(locals'.channelCandidates))
    /\ options' = optionsAfterCall(candles, options)
    /\ pc' = IF result'.threw THEN "threw" ELSE "returned"
    /\ UNCHANGED <<scanArgs, scanResult, build, widthCall>>

Next == AddCandle \/ Call

Spec == Init /\ [][Next]_vars

ScanAddCandle == \E shape \in CandleShapes : AppendCandle(shape, MaxScanLen)

Scan ==
    /\ pc = "input"
    /\ \E period \in -1..MaxScanPeriod, source \in Sources :
          /\ scanArgs' = [period |-> period, source |-> source]
          /\ scanResult' = [highs |-> findPivotHighs(candles, period, source),
                            lows |-> findPivotLows(candles, period, source)]
    /\ pc' = "scanned"
    /\ UNCHANGED <<candles, options, result, locals, build, widthCall>>

ScanNext == ScanAddCandle \/ Scan

ScanInit ==
    /\ candles = <<>>
    /\ pc = "input"
    /\ options = NoOptions
    /\ result = NoResult
    /\ locals = NoLocals
    /\ scanArgs = [period |-> 0, source |-> "High/Low"]
    /\ scanResult = NoScan
    /\ build = NoBuild
    /\ widthCall = NoWidthCall

ScanSpec == ScanInit /\ [][ScanNext]_vars

(***************************************************************************)
(* The 41-candle series of the specification's concrete scenario: the high *)
(* is 100 at index 20 and falls strictly with the distance from index 20   *)
(* to 90 at both ends.  Prices of these series are in tenths, so that the  *)
(* fall per candle, `slope` tenths over the first ten candles from the     *)
(* peak and 10 - slope tenths over the last ten, is an integer.            *)
(***************************************************************************)
peakHigh(slope, i) ==
    LET d == IF i >= 20 THEN i - 20 ELSE 20 - i
    IN  IF d <= 10 THEN 1000 - slope * d
        ELSE 1000 - slope * 10 - (10 - slope) * (d - 10)

peakCandle(slope, spread, body, i) ==
    LET high == peakHigh(slope, i)
        low == high - spread
    IN  [timestamp |-> i + 1, high |-> high, low |-> low,
         open |-> IF body = "down" THEN high ELSE low,
         close |-> IF body = "up" THEN high ELSE low]

PeakSeries ==
    { [k \in 1..41 |-> peakCandle(slope, spread, body, k - 1)] :
        slope \in 1..9, spread \in {0, 5, 20, 150}, body \in {"up", "down", "flat"} }

PeakInit ==
    /\ candles \in PeakSeries
    /\ pc = "input"
    /\ options = NoOptions
    /\ result = NoResult
    /\ locals = NoLocals
    /\ scanArgs = [period |-> 0, source |-> "High/Low"]
    /\ scanResult = NoScan
    /\ build = NoBuild
    /\ widthCall = NoWidthCall

PeakScan ==
    /\ pc = "input"
    /\ \E period \in {5, 10}, source \in Sources :
          /\ scanArgs' = [period |-> period, source |-> source]
          /\ scanResult' = [highs |-> findPivotHighs(candles, period, source),
                            lows |-> findPivotLows(candles, period, source)]
    /\ pc' = "scanned"
    /\ UNCHANGED <<candles, options, result, locals, build, widthCall>>

PeakNext == PeakScan

PeakSpec == PeakInit /\ [][PeakNext]_vars

(***************************************************************************)
(* A call of buildChannelFromPivot on its own, one loop iteration per       *)
(* step.  The pivot list is any list of up to MaxPivots pivots, newest      *)
(* first as the timestamp sort leaves it, the seed any position of it, and  *)
(* the width any of BuildWidths (in hundredths, as calculateChannelWidth    *)
(* gives it; a negative channelWidthPercent gives a negative width).        *)
(***************************************************************************)
PivotValues == 1..4

BuildWidths == {-100, 0, 100, 150, 200, 300}

pivotList(values) ==
    [k \in 1..Len(values) |->
        [value |-> values[k], index |-> Len(values) - k,
         timestamp |-> Len(values) - k + 1]]

BuildInputs ==
    UNION { { [pivotIndex |-> pivotIndex, allPivots |-> pivotList(values),
               channelWidth |-> channelWidth] :
                 values \in [1..n -> PivotValues],
                 pivotIndex \in 0..(n - 1),
                 channelWidth \in BuildWidths } : n \in 1..MaxPivots }

BuildInit ==
    /\ candles = <<>>
    /\ pc = "build"
    /\ options = NoOptions
    /\ result = NoResult
    /\ locals = NoLocals
    /\ scanArgs = [period |-> 0, source |-> "High/Low"]
    /\ scanResult = NoScan
    /\ widthCall = NoWidthCall
    /\ \E in \in BuildInputs :
          LET basePivot == in.allPivots[in.pivotIndex + 1]
          IN  build = [pivotIndex |-> in.pivotIndex, allPivots |-> in.allPivots,
                       channelWidth |-> in.channelWidth, i |-> 0,
                       channel |-> [high |-> basePivot.value, low |-> basePivot.value,
                                    pivotCount |-> 1],
                       returned |-> FALSE, result |-> NoBuild.result]

\* One iteration of the loop over allPivots.
BuildStep ==
    /\ ~build.returned
    /\ build.i < Len(build.allPivots)
    /\ build' = [build EXCEPT
                    !.i = build.i + 1,
                    !.channel = IF build.i = build.pivotIndex THEN build.channel
                                ELSE absorb(build.channel, build.allPivots[build.i + 1],
                                            build.channelWidth)]
    /\ UNCHANGED <<candles, pc, options, result, locals, scanArgs, scanResult, widthCall>>

\* The loop is over; the caller receives what the whole call computes.
BuildReturn ==
    /\ ~build.returned
    /\ ~(build.i < Len(build.allPivots))
    /\ build' = [build EXCEPT
                    !.returned = TRUE,
                    !.result = buildChannelFromPivot(build.pivotIndex, build.allPivots,
                                                     build.channelWidth)]
    /\ UNCHANGED <<candles, pc, options, result, locals, scanArgs, scanResult, widthCall>>

BuildNext == BuildStep \/ BuildReturn

BuildSpec == BuildInit /\ [][BuildNext]_vars

(***************************************************************************)
(* A call of calculateChannelWidth on its own, on series that are longer   *)
(* than its lookback: up to MaxOlder candles of any shape, followed by a   *)
(* block of `recent` candles of one shape with one candle of another shape *)
(* at its start, in its middle or at its end.                              *)
(***************************************************************************)
RecentLengths == {1, 2, WidthLookback - 1, WidthLookback}

recentBlock(length, base, other, at) ==
    [k \in 1..length |-> IF k = at THEN other ELSE base]

RecentBlocks ==
    UNION { { recentBlock(length, base, other, at) :
                base \in CandleShapes, other \in CandleShapes,
                at \in {1, (length + 1) \div 2, length} } : length \in RecentLengths }

OlderBlocks == UNION { [1..n -> CandleShapes] : n \in 0..MaxOlder }

WidthSeries ==
    { [k \in 1..(Len(older) + Len(recent)) |->
          withTimestamp(IF k <= Len(older) THEN older[k] ELSE recent[k - Len(older)], k)] :
        older \in OlderBlocks, recent \in RecentBlocks }

WidthInit ==
    /\ candles \in WidthSeries
    /\ pc = "width"
    /\ options = NoOptions
    /\ result = NoResult
    /\ locals = NoLocals
    /\ scanArgs = [period |-> 0, source |-> "High/Low"]
    /\ scanResult = NoScan
    /\ build = NoBuild
    /\ widthCall = NoWidthCall

WidthCall ==
    /\ ~widthCall.returned
    /\ \E widthPercent \in {DefaultChannelWidthPercent, 50} :
          widthCall' = [widthPercent |-> widthPercent, returned |-> TRUE,
                        value |-> calculateChannelWidth(candles, widthPercent)]
    /\ UNCHANGED <<candles, pc, options, result, locals, scanArgs, scanResult, build>>

WidthNext == WidthCall

WidthSpec == WidthInit /\ [][WidthNext]_vars

(***************************************************************************)
(* Properties of calculateSRChannels, checked under Spec.                  *)
(***************************************************************************)
returned == pc = "returned"

channels == result.channels

currentPriceOfCall == candles[Len(candles)].close

\* The threshold-passing candidates of the call that are not in the result
\* although the cap was not what stopped them.
rejectedForOverlap ==
    {k \in 1..Len(sortedCandidatesOf(candles, options)) :
        LET c == sortedCandidatesOf(candles, options)[k]
        IN  \E m \in 1..Len(channels) :
               /\ overlaps(c, channels[m])
               /\ ~(c.high = channels[m].high /\ c.low = channels[m].low)}

\* C1: no two distinct channels of one returned list overlap, i.e. for
\* distinct positions a, b: NOT (A.high >= B.low AND A.low <= B.high).
NonOverlap ==
    returned =>
        \A a, b \in 1..Len(channels) :
            a # b => ~(channels[a].high >= channels[b].low
                       /\ channels[a].low <= channels[b].high)

\* A call that returned two channels and turned down a candidate with other
\* bounds because it overlapped one of them.
NonOverlapWitness ==
    /\ returned
    /\ Len(channels) >= 2
    /\ rejectedForOverlap # {}

\* C2 as stated: the returned list has between 0 and maxChannels entries,
\* maxChannels being 6 when omitted.
CapRespected ==
    returned =>
        /\ Len(channels) >= 0
        /\ Len(channels) <= OrDefault(options.maxChannels, DefaultMaxChannels)

\* C2 amended: the returned list has between 0 and max(maxChannels, 0)
\* entries, maxChannels being 6 when omitted.
CapRespectedNonNegative ==
    returned =>
        /\ Len(channels) >= 0
        /\ Len(channels) <= Max(OrDefault(options.maxChannels, DefaultMaxChannels), 0)

\* A call that stopped at the cap although a further candidate overlapping
\* none of the returned channels was left.
CapRespectedWitness ==
    /\ returned
    /\ options.maxChannels # <<>>
    /\ Len(channels) = options.maxChannels[1]
    /\ Len(channels) >= 1
    /\ \E k \in 1..Len(sortedCandidatesOf(candles, options)) :
          ~isOverlapping(sortedCandidatesOf(candles, options)[k], channels)

\* C3: the returned list is sorted by strength, non-increasing.
StrengthOrdering ==
    returned =>
        \A k \in 1..(Len(channels) - 1) : channels[k].strength >= channels[k + 1].strength

\* A call that returned channels of different strengths whose candidates were
\* not built in that order.
StrengthOrderingWitness ==
    /\ returned
    /\ Len(channels) >= 2
    /\ channels[1].strength > channels[2].strength
    /\ \E k \in 1..(Len(channelCandidatesOf(candles, options)) - 1) :
          channelCandidatesOf(candles, options)[k].strength
              < channelCandidatesOf(candles, options)[k + 1].strength

\* C4: calculateSRChannels never throws, whatever the candles and the options.
NeverThrows == pc # "threw"

\* C5: a call on fewer than 2 * pivotPeriod + 1 candles (pivotPeriod being 10
\* when omitted) returns the empty list.
InsufficientData ==
    (pc # "input"
     /\ Len(candles) < 2 * OrDefault(options.pivotPeriod, DefaultPivotPeriod) + 1)
        => (returned /\ channels = <<>>)

\* A call with a given pivotPeriod >= 1 on a non-empty series one candle
\* short of the minimum 2 * pivotPeriod + 1.
InsufficientDataWitness ==
    /\ returned
    /\ options.pivotPeriod # <<>>
    /\ Len(candles) >= 1
    /\ Len(candles) = 2 * options.pivotPeriod[1]
    /\ channels = <<>>

\* C6: with currentPrice the close of the last candle, a returned channel is
\* 'support' when both bounds are below currentPrice, 'resistance' when both
\* are above it, and 'neutral' in every other case.
TypeClassification ==
    returned =>
        \A k \in 1..Len(channels) :
            LET c == channels[k]
                currentPrice == currentPriceOfCall
            IN  /\ (c.high < currentPrice /\ c.low < currentPrice) => c.type = "support"
                /\ (c.high > currentPrice /\ c.low > currentPrice) => c.type = "resistance"
                /\ (~(c.high < currentPrice /\ c.low < currentPrice)
                    /\ ~(c.high > currentPrice /\ c.low > currentPrice)) => c.type = "neutral"

\* A call that returned a support, a resistance and a neutral channel, the
\* neutral one with a bound equal to the current price.
TypeClassificationWitness ==
    /\ returned
    /\ \E k \in 1..Len(channels) : channels[k].type = "support"
    /\ \E k \in 1..Len(channels) : channels[k].type = "resistance"
    /\ \E k \in 1..Len(channels) :
          /\ channels[k].type = "neutral"
          /\ currentPriceOfCall \in {channels[k].high, channels[k].low}

\* C7: every returned channel has high >= low.
BoundOrdering ==
    returned => \A k \in 1..Len(channels) : channels[k].high >= channels[k].low

\* A call that returned a channel grown upwards from its seed and a channel
\* grown downwards from its seed.
BoundOrderingWitness ==
    /\ returned
    /\ \E k \in 1..Len(channels) : channels[k].high > channels[k].low
    /\ \E p \in 1..Len(validPivotsOf(candles, options)), k \in 1..Len(channels) :
          /\ channels[k].low = validPivotsOf(candles, options)[p].value
          /\ channels[k].high > channels[k].low
          /\ LET c == channelCandidatesOf(candles, options)[p]
             IN  c.high = channels[k].high /\ c.low = channels[k].low

(***************************************************************************)
(* Properties of the pivot scanner, checked under ScanSpec.                *)
(***************************************************************************)
scanned == pc = "scanned"

reportedIndices(scan) == {scan.pivots[k].index : k \in 1..Len(scan.pivots)}

\* The value the claims compare at index i: the candle's high, or the larger
\* of open and close; the candle's low, or the smaller of open and close.
highValueAt(i) ==
    LET c == candles[i + 1]
    IN  IF scanArgs.source = "High/Low" THEN c.high
        ELSE IF c.open >= c.close THEN c.open ELSE c.close

lowValueAt(i) ==
    LET c == candles[i + 1]
    IN  IF scanArgs.source = "High/Low" THEN c.low
        ELSE IF c.open <= c.close THEN c.open ELSE c.close

\* The indices j with 1 <= |i - j| <= period.
neighbours(i) ==
    {j \in 0..(Len(candles) - 1) :
        /\ j # i
        /\ j - i <= scanArgs.period
        /\ i - j <= scanArgs.period}

scanRange == scanArgs.period..(Len(candles) - scanArgs.period - 1)

\* C9: an index i with period <= i < N - period is reported by findPivotHighs
\* if and only if its source value is strictly greater than the source value
\* of every j with 1 <= |i - j| <= period, and it is reported with that value.
PivotHighIff ==
    (scanned /\ ~scanResult.highs.threw) =>
        /\ \A i \in scanRange :
              i \in reportedIndices(scanResult.highs)
                  <=> \A j \in neighbours(i) : highValueAt(j) < highValueAt(i)
        /\ \A k \in 1..Len(scanResult.highs.pivots) :
              LET p == scanResult.highs.pivots[k]
              IN  p.index \in scanRange => p.value = highValueAt(p.index)

\* A scan with period 2 and source 'Close/Open' that reported a pivot-high
\* and passed over an index above both adjacent candles but tied with the
\* candle two places before it.
PivotHighIffWitness ==
    /\ scanned
    /\ scanArgs.period = 2
    /\ scanArgs.source = "Close/Open"
    /\ Len(scanResult.highs.pivots) >= 1
    /\ \E i \in scanRange :
          /\ i \notin reportedIndices(scanResult.highs)
          /\ highValueAt(i - 1) < highValueAt(i)
          /\ highValueAt(i + 1) < highValueAt(i)
          /\ highValueAt(i - 2) = highValueAt(i)

\* C10: an index i with period <= i < N - period is reported by findPivotLows
\* if and only if its source value is strictly less than the source value of
\* every j with 1 <= |i - j| <= period.
PivotLowIff ==
    (scanned /\ ~scanResult.lows.threw) =>
        \A i \in scanRange :
            i \in reportedIndices(scanResult.lows)
                <=> \A j \in neighbours(i) : lowValueAt(j) > lowValueAt(i)

\* A scan with period 2 and source 'Close/Open' that reported a pivot-low and
\* passed over an index below both adjacent candles but tied with the candle
\* two places before it.
PivotLowIffWitness ==
    /\ scanned
    /\ scanArgs.period = 2
    /\ scanArgs.source = "Close/Open"
    /\ Len(scanResult.lows.pivots) >= 1
    /\ \E i \in scanRange :
          /\ i \notin reportedIndices(scanResult.lows)
          /\ lowValueAt(i - 1) > lowValueAt(i)
          /\ lowValueAt(i + 1) > lowValueAt(i)
          /\ lowValueAt(i - 2) = lowValueAt(i)

\* C11: neither scan reports a pivot at an index < period or >= N - period,
\* and on fewer than 2 * period + 1 candles both return the empty sequence
\* without an error.
BoundaryExclusion ==
    scanned =>
        /\ \A i \in reportedIndices(scanResult.highs) \cup reportedIndices(scanResult.lows) :
              ~(i < scanArgs.period) /\ ~(i >= Len(candles) - scanArgs.period)
        /\ Len(candles) < 2 * scanArgs.period + 1 =>
              /\ ~scanResult.highs.threw /\ scanResult.highs.pivots = <<>>
              /\ ~scanResult.lows.threw /\ scanResult.lows.pivots = <<>>

\* A scan with period >= 1 that reported a pivot-high at index `period`, the
\* first index it may report, and no pivot at the last index although the
\* last candle is above every other candle of the series.
BoundaryExclusionWitness ==
    /\ scanned
    /\ scanArgs.period >= 1
    /\ scanArgs.period \in reportedIndices(scanResult.highs)
    /\ \A j \in 0..(Len(candles) - 2) : highValueAt(j) < highValueAt(Len(candles) - 1)
    /\ (Len(candles) - 1) \notin reportedIndices(scanResult.highs)

(***************************************************************************)
(* The concrete scenario, checked under PeakSpec.                          *)
(***************************************************************************)
\* C12: on a 41-candle series whose high is 100 at index 20 and falls
\* monotonically away from index 20 to 90 at both ends, findPivotHighs with
\* period 10 and source 'High/Low' returns exactly one pivot, index 20 with
\* value 100 (1000 tenths).
SinglePeak ==
    (scanned /\ scanArgs.period = 10 /\ scanArgs.source = "High/Low") =>
        /\ ~scanResult.highs.threw
        /\ Len(scanResult.highs.pivots) = 1
        /\ scanResult.highs.pivots[1].index = 20
        /\ scanResult.highs.pivots[1].value = 1000

\* Such a scan on a series with high 100 at index 20, 90 at both ends, an
\* uneven fall and candles whose open and close lie below the high.
SinglePeakWitness ==
    /\ scanned
    /\ scanArgs.period = 10
    /\ scanArgs.source = "High/Low"
    /\ Len(candles) = 41
    /\ candles[21].high = 1000
    /\ candles[1].high = 900 /\ candles[41].high = 900
    /\ candles[20].high - candles[19].high # candles[2].high - candles[1].high
    /\ candles[21].open < candles[21].high
    /\ Len(scanResult.highs.pivots) = 1

(***************************************************************************)
(* Further properties of calculateSRChannels, checked under Spec.          *)
(***************************************************************************)
\* C15: a call changes neither the candle sequence (its order and every
\* field of every candle) nor the options object.
InputsUnchanged ==
    [][(pc = "input" /\ pc' \in {"returned", "threw"})
          => (candles' = candles /\ options' = options)]_vars

\* A call that went through the width computation and the scoring of at least
\* two candidates, with a loopback window shorter than the series.
InputsUnchangedWitness ==
    /\ returned
    /\ Len(channels) >= 2
    /\ options.loopbackPeriod = <<1>>
    /\ options.pivotPeriod # <<>>
    /\ Len(candles) >= 3

\* The pivots of the call's series, newest first, and those of them that are
\* at most loopbackPeriod candles behind the last candle.
pivotsOfCall == locals.allPivots

distanceFromLast(p) == (Len(candles) - 1) - p.index

loopbackOfCall == OrDefault(options.loopbackPeriod, DefaultLoopbackPeriod)

pivotsInLoopback == SelectSeq(pivotsOfCall, LAMBDA p : distanceFromLast(p) <= loopbackOfCall)

candidatesOfCall == locals.channelCandidates

\* C13: exactly the pivots with (candles.length - 1) - index <= loopbackPeriod
\* seed a candidate, one candidate each and in their order, and when no pivot
\* satisfies this the result is the empty list.
LoopbackSeeds ==
    returned =>
        LET seeds == pivotsInLoopback
        IN  /\ Len(candidatesOfCall) = Len(seeds)
            /\ \A k \in 1..Len(candidatesOfCall) :
                  /\ candidatesOfCall[k].low <= seeds[k].value
                  /\ seeds[k].value <= candidatesOfCall[k].high
            /\ Len(seeds) = 0 => channels = <<>>

\* A call with a given loopbackPeriod that had a pivot older than the window,
\* a pivot exactly loopbackPeriod candles back, and returned a channel.
LoopbackSeedsWitness ==
    /\ returned
    /\ options.loopbackPeriod # <<>>
    /\ \E k \in 1..Len(pivotsOfCall) : distanceFromLast(pivotsOfCall[k]) > loopbackOfCall
    /\ \E k \in 1..Len(pivotsOfCall) :
          /\ distanceFromLast(pivotsOfCall[k]) = loopbackOfCall
          /\ loopbackOfCall >= 1
    /\ Len(channels) >= 1

thresholdOfCall == OrDefault(options.minStrength, DefaultMinStrength) * 20

\* C14: every returned channel has strength >= minStrength * 20, and when no
\* candidate reaches minStrength * 20 the result is the empty list.
StrengthThreshold ==
    returned =>
        /\ \A m \in 1..Len(channels) : channels[m].strength >= thresholdOfCall
        /\ (\A k \in 1..Len(candidatesOfCall) :
                candidatesOfCall[k].strength < thresholdOfCall) => channels = <<>>

\* A call with minStrength given as 2 in which one candidate fell short of 40
\* and another reached it and was returned.
StrengthThresholdWitness ==
    /\ returned
    /\ options.minStrength = <<2>>
    /\ \E k \in 1..Len(candidatesOfCall) : candidatesOfCall[k].strength < thresholdOfCall
    /\ \E k \in 1..Len(candidatesOfCall) : candidatesOfCall[k].strength >= thresholdOfCall
    /\ Len(channels) >= 1

\* A call in which candidates were built and none reached the threshold.
StrengthThresholdEmptyWitness ==
    /\ returned
    /\ Len(candidatesOfCall) >= 1
    /\ \A k \in 1..Len(candidatesOfCall) : candidatesOfCall[k].strength < thresholdOfCall
    /\ channels = <<>>

widthOfCall ==
    calculateChannelWidth(candles,
        OrDefault(options.channelWidthPercent, DefaultChannelWidthPercent))

\* The channel the absorption loop builds for the seed at position k when it
\* ranges over the pivot list `pivots`.
builtOver(pivots, k) == buildChannelFromPivot(k - 1, pivots, widthOfCall)

sameChannel(candidate, channel) ==
    /\ candidate.high = channel.high
    /\ candidate.low = channel.low
    /\ candidate.pivotCount = channel.pivotCount

\* C16 as stated: the absorption loop of every candidate ranges over the
\* full pivot list, pivots older than the loopback window included.  The
\* pivots of the window are the first entries of the full list, so the seed
\* of candidate k is entry k of either list.
FullListAbsorption ==
    returned =>
        \A k \in 1..Len(candidatesOfCall) :
            sameChannel(candidatesOfCall[k], builtOver(pivotsOfCall, k))

\* C16 amended: the absorption loop of every candidate ranges over the
\* pivots of the loopback window only; a pivot older than the window is
\* neither absorbed nor counted in pivotCount.
WindowAbsorption ==
    returned =>
        LET seeds == pivotsInLoopback
        IN  \A k \in 1..Len(candidatesOfCall) :
                /\ sameChannel(candidatesOfCall[k], builtOver(seeds, k))
                /\ candidatesOfCall[k].pivotCount <= Len(seeds)

\* A call with a pivot older than the window that the loop over the full
\* list would have absorbed into a candidate, and that returned a channel.
WindowAbsorptionWitness ==
    /\ returned
    /\ Len(pivotsOfCall) > Len(pivotsInLoopback)
    /\ \E k \in 1..Len(candidatesOfCall) :
          builtOver(pivotsOfCall, k).pivotCount > candidatesOfCall[k].pivotCount
    /\ Len(channels) >= 1

\* The candles calculateChannelStrength scans: candles.slice(-loopbackPeriod).
windowOfCall == Slice(candles, -loopbackOfCall)

within(v, channel) == channel.low <= v /\ v <= channel.high

\* The candles of `window` that are a touch of `channel`: high or low within it.
touchesWithin(window, channel) ==
    {j \in 1..Len(window) :
        within(window[j].high, channel) \/ within(window[j].low, channel)}

touchesOfCall(channel) == touchesWithin(windowOfCall, channel)

\* C17: the strength of a candidate is pivotCount * 20 + touchCount, a window
\* candle being a touch iff its high or its low lies in [low, high], bounds
\* inclusive, and each candle counting at most once.
StrengthFormula ==
    returned =>
        LET window == windowOfCall
        IN  \A k \in 1..Len(candidatesOfCall) :
                candidatesOfCall[k].strength =
                    candidatesOfCall[k].pivotCount * 20
                        + Cardinality(touchesWithin(window, candidatesOfCall[k]))

\* A call with a candidate whose window holds a candle with both high and low
\* within the channel, a candle that touches it only with one value equal to
\* a bound, and a candle that does not touch it.
StrengthFormulaWitness ==
    /\ returned
    /\ \E k \in 1..Len(candidatesOfCall) :
          LET c == candidatesOfCall[k]
          IN  /\ \E j \in 1..Len(windowOfCall) :
                     within(windowOfCall[j].high, c) /\ within(windowOfCall[j].low, c)
              /\ \E j \in 1..Len(windowOfCall) :
                     /\ windowOfCall[j].low = c.high
                     /\ windowOfCall[j].high > c.high
              /\ \E j \in 1..Len(windowOfCall) : j \notin touchesOfCall(c)

touchCountOf(candidate) == candidate.strength - candidate.pivotCount * 20

intersects(candle, channel) == candle.low <= channel.high /\ channel.low <= candle.high

strictlyContains(candle, channel) == candle.low < channel.low /\ candle.high > channel.high

\* C18 as stated: the touch count of a candidate is the number of window
\* candles whose [low, high] range intersects the channel's range, a candle
\* whose range strictly contains the channel included.
RangeIntersectionTouch ==
    returned =>
        \A k \in 1..Len(candidatesOfCall) :
            touchCountOf(candidatesOfCall[k]) =
                Cardinality({j \in 1..Len(windowOfCall) :
                                intersects(windowOfCall[j], candidatesOfCall[k])})

\* C18 amended: the touch count of a candidate is the number of window
\* candles (low <= high) whose range intersects the channel's range without
\* strictly containing the channel.
EndpointTouch ==
    returned =>
        LET window == windowOfCall
        IN  \A k \in 1..Len(candidatesOfCall) :
                touchCountOf(candidatesOfCall[k]) =
                    Cardinality({j \in 1..Len(window) :
                                    /\ window[j].low <= window[j].high
                                    /\ intersects(window[j], candidatesOfCall[k])
                                    /\ ~strictlyContains(window[j], candidatesOfCall[k])})

\* A call with a candidate whose window holds a candle strictly containing
\* the channel, left out of the count, and a candle overlapping it, counted.
EndpointTouchWitness ==
    /\ returned
    /\ \E k \in 1..Len(candidatesOfCall) :
          LET c == candidatesOfCall[k]
          IN  /\ \E j \in 1..Len(windowOfCall) : strictlyContains(windowOfCall[j], c)
              /\ touchCountOf(c) >= 1
              /\ touchCountOf(c) < Cardinality({j \in 1..Len(windowOfCall) :
                                                  intersects(windowOfCall[j], c)})

\* C19: every pivot that seeds a candidate has its candle among the candles
\* scanned for touches, candles.slice(-loopbackPeriod), the most recent
\* loopbackPeriod candles.
OneLoopbackWindow ==
    returned =>
        \A k \in 1..Len(locals.validPivots) :
            \E j \in 1..Len(windowOfCall) :
                windowOfCall[j].timestamp = locals.validPivots[k].timestamp

sortedOfCall == locals.sortedCandidates

capOfCall == OrDefault(options.maxChannels, DefaultMaxChannels)

rangesMeet(a, b) == a.high >= b.low /\ a.low <= b.high

\* Candidate k is taken given the set `before` of positions taken before it.
takenAfter(k, before) ==
    /\ Cardinality(before) < capOfCall
    /\ \A m \in before : ~rangesMeet(sortedOfCall[k], sortedOfCall[m])

\* The positions among the first k sorted candidates that the rule accepts.
RECURSIVE acceptedUpTo(_)
acceptedUpTo(k) ==
    IF k = 0 THEN {}
    ELSE LET before == acceptedUpTo(k - 1)
         IN  IF takenAfter(k, before) THEN before \union {k} ELSE before

\* C20: the returned list is, in sorted order, exactly the candidates that
\* are accepted by the rule "fewer than maxChannels accepted before it and it
\* overlaps none of them"; hence a threshold-passing candidate that is not
\* returned overlaps a returned channel that precedes it in sorted order or
\* comes after the maxChannels-th acceptance.
GreedySelection ==
    returned =>
        LET accepted == acceptedUpTo(Len(sortedOfCall))
            rank(k) == Cardinality({j \in accepted : j <= k})
        IN  /\ Len(channels) = Cardinality(accepted)
            /\ \A k \in accepted :
                  /\ channels[rank(k)].high = sortedOfCall[k].high
                  /\ channels[rank(k)].low = sortedOfCall[k].low
                  /\ channels[rank(k)].strength = sortedOfCall[k].strength
            /\ \A k \in (1..Len(sortedOfCall)) \ accepted :
                  \/ \E m \in 1..rank(k) : rangesMeet(sortedOfCall[k], channels[m])
                  \/ rank(k) >= capOfCall

\* A call in which a candidate was passed over for overlap, a later one was
\* accepted, and a still later one that overlaps no returned channel was left
\* out because maxChannels had been reached.
GreedySelectionWitness ==
    /\ returned
    /\ capOfCall >= 2
    /\ Len(channels) = capOfCall
    /\ LET accepted == acceptedUpTo(Len(sortedOfCall))
       IN  \E k1, k2, k3 \in 1..Len(sortedOfCall) :
              /\ k1 < k2 /\ k2 < k3
              /\ k1 \notin accepted
              /\ k2 \in accepted
              /\ k3 \notin accepted
              /\ \A m \in 1..Len(channels) : ~rangesMeet(sortedOfCall[k3], channels[m])

(***************************************************************************)
(* Properties of buildChannelFromPivot, checked under BuildSpec.           *)
(***************************************************************************)
built == build.returned

\* The values of the pivots other than the seed, in list order.
otherValues ==
    LET n == Len(build.allPivots)
        seed == build.pivotIndex + 1
    IN  [k \in 1..(n - 1) |->
            IF k < seed THEN build.allPivots[k].value ELSE build.allPivots[k + 1].value]

seedValue == build.allPivots[build.pivotIndex + 1].value

\* One step of the fold on the pivot value q with the budget `budget`.
foldStep(state, q, budget) ==
    LET width == IF q <= state.high THEN state.high - q ELSE q - state.low
    IN  IF width * 100 <= budget
        THEN IF q <= state.high
             THEN [high |-> state.high,
                   low |-> IF q < state.low THEN q ELSE state.low,
                   pivotCount |-> state.pivotCount + 1]
             ELSE [high |-> IF q > state.high THEN q ELSE state.high,
                   low |-> state.low,
                   pivotCount |-> state.pivotCount + 1]
        ELSE state

RECURSIVE foldLeft(_, _, _)
foldLeft(state, values, budget) ==
    IF values = <<>> THEN state
    ELSE foldLeft(foldStep(state, Head(values), budget), Tail(values), budget)

\* C21: buildChannelFromPivot is the single left-to-right fold over the
\* other pivots in list order from high = low = seed value, pivotCount = 1,
\* each pivot absorbed or left by the width test against the bounds as they
\* are at its turn; the seed is skipped.
SingleFold ==
    built =>
        /\ build.result =
              foldLeft([high |-> seedValue, low |-> seedValue, pivotCount |-> 1],
                       otherValues, build.channelWidth)
        /\ build.channel = build.result

\* A finished call that skipped a seed in the middle of the list, absorbed a
\* pivot on each side of the seed value and left a later pivot out that
\* lies within the width of the seed.
SingleFoldWitness ==
    /\ built
    /\ build.pivotIndex >= 1
    /\ build.pivotIndex + 1 < Len(build.allPivots)
    /\ build.result.low < seedValue
    /\ build.result.high > seedValue
    /\ \E k \in 1..Len(otherValues) :
          /\ (otherValues[k] < build.result.low \/ otherValues[k] > build.result.high)
          /\ (otherValues[k] - seedValue) * 100 <= build.channelWidth
          /\ (seedValue - otherValues[k]) * 100 <= build.channelWidth

spanWithin(channel, budget) == (channel.high - channel.low) * 100 <= budget

\* C22: for channelWidth >= 0, high - low <= channelWidth after every step
\* of the absorption loop and in the channel the call returns (which is what
\* a candidate and a returned channel take their bounds from).
WidthBudget ==
    build.channelWidth >= 0 =>
        /\ spanWithin(build.channel, build.channelWidth)
        /\ built => spanWithin(build.result, build.channelWidth)

\* A loop in progress whose channel has used up a positive width exactly,
\* with a pivot still to come that lies outside the channel.
WidthBudgetWitness ==
    /\ ~built
    /\ build.i >= 2
    /\ build.channelWidth > 0
    /\ (build.channel.high - build.channel.low) * 100 = build.channelWidth
    /\ \E k \in (build.i + 1)..Len(build.allPivots) :
          /\ k # build.pivotIndex + 1
          /\ build.allPivots[k].value > build.channel.high

\* The same budget on the candidates and the returned channels of a call of
\* calculateSRChannels (checked under Spec).
WidthBudgetOfCall ==
    (returned /\ Len(candidatesOfCall) >= 1 /\ widthOfCall >= 0) =>
        /\ \A k \in 1..Len(candidatesOfCall) : spanWithin(candidatesOfCall[k], widthOfCall)
        /\ \A m \in 1..Len(channels) : spanWithin(channels[m], widthOfCall)

(***************************************************************************)
(* Further properties of calculateSRChannels, checked under Spec.          *)
(***************************************************************************)
\* C23: touches are counted over exactly the most recent loopbackPeriod
\* candles, so for every loopbackPeriod >= 0 the touch count of a candidate
\* is at most min(loopbackPeriod, N), and 0 when loopbackPeriod = 0.
TouchWindowBound ==
    (returned /\ loopbackOfCall >= 0) =>
        \A k \in 1..Len(candidatesOfCall) :
            touchCountOf(candidatesOfCall[k]) <=
                (IF loopbackOfCall < Len(candles) THEN loopbackOfCall ELSE Len(candles))

(***************************************************************************)
(* Properties of calculateChannelWidth, checked under WidthSpec.  The      *)
(* value of the model is channelWidth in hundredths, so the claim's        *)
(* (highest - lowest) * percent / 100 reads (highest - lowest) * percent.  *)
(***************************************************************************)
\* Position (1-based) of the first of the most recent min(300, N) candles.
firstOfLast == IF Len(candles) > 300 THEN Len(candles) - 299 ELSE 1

highestOfLast ==
    LET highs == {candles[k].high : k \in firstOfLast..Len(candles)}
    IN  CHOOSE h \in highs : \A g \in highs : g <= h

lowestOfLast ==
    LET lows == {candles[k].low : k \in firstOfLast..Len(candles)}
    IN  CHOOSE l \in lows : \A g \in lows : g >= l

\* The series without the candles older than the last 300.
withoutOlder == SubSeq(candles, firstOfLast, Len(candles))

\* C24: channelWidth is (highest high - lowest low) * channelWidthPercent
\* / 100 over the most recent min(300, N) candles only; the candles older
\* than the last 300 do not change it.
WidthOverLookback ==
    widthCall.returned =>
        /\ widthCall.value = (highestOfLast - lowestOfLast) * widthCall.widthPercent
        /\ widthCall.value = calculateChannelWidth(withoutOlder, widthCall.widthPercent)

\* A call on more than 300 candles in which a candle older than the last
\* 300 is higher than every one of the last 300 and another is lower.
WidthOverLookbackWitness ==
    /\ widthCall.returned
    /\ Len(candles) > 300
    /\ \E k \in 1..(firstOfLast - 1) : candles[k].high > highestOfLast
    /\ \E k \in 1..(firstOfLast - 1) : candles[k].low < lowestOfLast
    /\ widthCall.value > 0

distance(a, b) == IF a >= b THEN a - b ELSE b - a

\* The bounds buildChannelFromPivot returns for the seed of value `seed`
\* placed first, followed by the other pivots in the order of `others`.
boundsFor(seed, others, width) ==
    LET channel == buildChannelFromPivot(0, pivotList(<<seed>> \o others), width)
    IN  <<channel.low, channel.high>>

\* A seed, a width and two other pivots, each within the width of the seed
\* but not of each other, for which the two orders give different bounds.
orderMatters(seed, a, b, width) ==
    /\ distance(a, seed) * 100 <= width
    /\ distance(b, seed) * 100 <= width
    /\ distance(a, b) * 100 > width
    /\ boundsFor(seed, <<a, b>>, width) # boundsFor(seed, <<b, a>>, width)

\* C25: the greedy absorption is order-dependent: there are a seed, a
\* channelWidth and two orderings of the same other pivots (each within
\* channelWidth of the seed, not all pairwise within it) for which
\* buildChannelFromPivot returns different bounds.  Such inputs exist for
\* the width of every call that is at least one price step and less than
\* the distance 3 between the lowest and the highest pivot value.
OrderDependence ==
    (build.channelWidth >= 100 /\ build.channelWidth < 300) =>
        \E seed \in PivotValues, a \in PivotValues, b \in PivotValues :
            orderMatters(seed, a, b, build.channelWidth)

\* A finished call on such a seed and two other pivots whose returned
\* bounds differ from those for the other order of the two.
OrderDependenceWitness ==
    /\ built
    /\ Len(build.allPivots) = 3
    /\ build.pivotIndex = 0
    /\ orderMatters(seedValue, otherValues[1], otherValues[2], build.channelWidth)
    /\ <<build.result.low, build.result.high>> =
           boundsFor(seedValue, <<otherValues[1], otherValues[2]>>, build.channelWidth)
    /\ <<build.result.low, build.result.high>> #
           boundsFor(seedValue, <<otherValues[2], otherValues[1]>>, build.channelWidth)

minStrengthOfCall == OrDefault(options.minStrength, DefaultMinStrength)

\* The pivots of the series of the call, as the two scans report them, that
\* are at most loopbackPeriod candles back from the last candle.
survivorsOfCall ==
    LET period == OrDefault(options.pivotPeriod, DefaultPivotPeriod)
        source == OrDefault(options.source, "High/Low")
        found == findPivotHighs(candles, period, source).pivots
                    \o findPivotLows(candles, period, source).pivots
    IN  SelectSeq(found, LAMBDA p : distanceFromLast(p) <= loopbackOfCall)

\* C26: every candidate has pivotCount >= 1 and strength >= 20, so with
\* minStrength <= 1 the strength filter removes nothing, and for
\* maxChannels >= 1 and minStrength <= 1 the returned list is non-empty
\* exactly when a pivot survives the loopback filter.
CandidateFloor ==
    returned =>
        /\ \A k \in 1..Len(candidatesOfCall) :
              /\ candidatesOfCall[k].pivotCount >= 1
              /\ candidatesOfCall[k].strength >= 20
        /\ minStrengthOfCall <= 1 => Len(sortedOfCall) = Len(candidatesOfCall)
        /\ (capOfCall >= 1 /\ minStrengthOfCall <= 1) =>
              (Len(channels) >= 1 <=> Len(survivorsOfCall) >= 1)

\* A call with minStrength 1 and maxChannels >= 1 that returned a channel
\* whose candidate has strength exactly 20: one pivot and no touch.
CandidateFloorWitness ==
    /\ returned
    /\ minStrengthOfCall <= 1
    /\ capOfCall >= 1
    /\ Len(survivorsOfCall) >= 1
    /\ \E k \in 1..Len(candidatesOfCall) :
          /\ candidatesOfCall[k].pivotCount = 1
          /\ candidatesOfCall[k].strength = 20
    /\ \E m \in 1..Len(channels) : channels[m].strength = 20

\* A call with minStrength 1 and maxChannels >= 1 on a series that has
\* pivots, none of which survives the loopback filter: nothing is returned.
CandidateFloorEmptyWitness ==
    /\ returned
    /\ minStrengthOfCall <= 1
    /\ capOfCall >= 1
    /\ Len(pivotsOfCall) >= 1
    /\ Len(survivorsOfCall) = 0
    /\ channels = <<>>

channelsOfType(type) == {m \in 1..Len(channels) : channels[m].type = type}

\* C27: a result holds at most one 'neutral' channel, a channel being
\* neutral exactly when low <= currentPrice <= high, and every 'support'
\* channel lies strictly below every 'resistance' channel of the result.
NeutralUnique ==
    returned =>
        /\ Cardinality(channelsOfType("neutral")) <= 1
        /\ \A m \in 1..Len(channels) :
              channels[m].type = "neutral" <=>
                  (channels[m].low <= currentPriceOfCall
                      /\ currentPriceOfCall <= channels[m].high)
        /\ \A s \in channelsOfType("support"), r \in channelsOfType("resistance") :
              channels[s].high < channels[r].low

\* A result with a support, a neutral and a resistance channel.
NeutralUniqueWitness ==
    /\ returned
    /\ channelsOfType("support") # {}
    /\ channelsOfType("resistance") # {}
    /\ channelsOfType("neutral") # {}

\* A result whose neutral channel is wider than a point and has the current
\* price on one of its bounds, next to a channel of another type.
NeutralUniqueBoundWitness ==
    /\ returned
    /\ Len(channels) >= 2
    /\ \E m \in channelsOfType("neutral") :
          /\ channels[m].low < channels[m].high
          /\ (channels[m].low = currentPriceOfCall \/ channels[m].high = currentPriceOfCall)

\* The outcome of the call on the same candles and the same options except
\* for maxChannels, which is one more.
callWithOneMore ==
    calculateSRChannels(candles, [options EXCEPT !.maxChannels = <<capOfCall + 1>>])

isPrefix(short, long) ==
    /\ Len(short) <= Len(long)
    /\ \A m \in 1..Len(short) : short[m] = long[m]

\* C28: with candles and the other options fixed, the list returned for
\* maxChannels = k is a prefix of the list returned for maxChannels = k + 1,
\* for every k >= 0.
CapMonotone ==
    (returned /\ capOfCall >= 0) =>
        LET more == callWithOneMore
        IN  /\ ~more.threw
            /\ isPrefix(channels, more.channels)

\* A call with maxChannels = 1 that returned one channel where the call
\* with maxChannels = 2 returns two, the stronger candidates between the
\* two having been passed over for overlap.
CapMonotoneWitness ==
    /\ returned
    /\ options.maxChannels = <<1>>
    /\ Len(channels) = 1
    /\ Len(callWithOneMore.channels) = 2
    /\ \E k \in 2..Len(sortedOfCall) :
          /\ rangesMeet(sortedOfCall[k], channels[1])
          /\ \E j \in (k + 1)..Len(sortedOfCall) :
                 /\ sortedOfCall[j].high = callWithOneMore.channels[2].high
                 /\ sortedOfCall[j].low = callWithOneMore.channels[2].low

(***************************************************************************)
(* Further properties of the pivot scans, checked under ScanSpec.          *)
(***************************************************************************)
\* Any two distinct entries of the list are more than `period` indices apart.
spacedOut(pivots, period) ==
    \A a, b \in 1..Len(pivots) :
        a # b => (pivots[a].index - pivots[b].index > period
                    \/ pivots[b].index - pivots[a].index > period)

\* C29: any two distinct pivot-highs of one findPivotHighs call are more
\* than period indices apart, and likewise any two pivot-lows of one
\* findPivotLows call.
PivotSpacing ==
    scanned =>
        /\ spacedOut(scanResult.highs.pivots, scanArgs.period)
        /\ spacedOut(scanResult.lows.pivots, scanArgs.period)

\* A scan with period >= 1 that reported two pivot-highs exactly period + 1
\* indices apart and two pivot-lows exactly period + 1 indices apart.
PivotSpacingWitness ==
    /\ scanned
    /\ scanArgs.period >= 1
    /\ \E a, b \in 1..Len(scanResult.highs.pivots) :
          scanResult.highs.pivots[b].index - scanResult.highs.pivots[a].index
              = scanArgs.period + 1
    /\ \E a, b \in 1..Len(scanResult.lows.pivots) :
          scanResult.lows.pivots[b].index - scanResult.lows.pivots[a].index
              = scanArgs.period + 1

(***************************************************************************)
(* Further properties of calculateSRChannels, checked under Spec (2).      *)
(***************************************************************************)
survivingValues == {pivotsInLoopback[k].value : k \in 1..Len(pivotsInLoopback)}

\* C30: the high and the low of every candidate and of every returned
\* channel are values of pivots that survived the loopback filter, the
\* seed's value lies within the candidate's bounds, and pivotCount is at
\* most the number of surviving pivots.
BoundsFromPivots ==
    returned =>
        LET seeds == pivotsInLoopback
            values == survivingValues
        IN  /\ \A k \in 1..Len(candidatesOfCall) :
                  /\ candidatesOfCall[k].high \in values
                  /\ candidatesOfCall[k].low \in values
                  /\ candidatesOfCall[k].low <= seeds[k].value
                  /\ seeds[k].value <= candidatesOfCall[k].high
                  /\ candidatesOfCall[k].pivotCount <= Len(seeds)
            /\ \A m \in 1..Len(channels) :
                  /\ channels[m].high \in values
                  /\ channels[m].low \in values

\* A call that returned a channel wider than a point, whose bounds are
\* two different surviving pivot values, while the series has a pivot
\* outside the loopback window whose value no surviving pivot has.
BoundsFromPivotsWitness ==
    /\ returned
    /\ \E m \in 1..Len(channels) : channels[m].low < channels[m].high
    /\ \E k \in 1..Len(pivotsOfCall) : pivotsOfCall[k].value \notin survivingValues

====
